---- MODULE Spec2Model ----
(***************************************************************************)
(* Model of the SharePoint authentication helpers (spAuthentication.ts:    *)
(* getSharePointSiteInfo, getSPFI, initSPFI, getSpAccessToken, getScopes,  *)
(* getAzureCredential) and of the debug HTTP handlers that call them       *)
(* (functions-debug.ts: getAccessToken, getWeb, getChanges).               *)
(*                                                                         *)
(* JavaScript objects live in `heap` and are referred to by their index,   *)
(* so that "the same object" and "an equal object" are different things.   *)
(* Handlers run on one event loop: the code between two awaits is one      *)
(* action, and invocations interleave only at their awaits.                *)
(***************************************************************************)
EXTENDS Integers, Sequences, FiniteSets, Bags, TLC

VARIABLES
    CommonConfig,    \* process configuration (utils/common.js), fixed after start
    callerKey,       \* level of the key the callers of this run hold, fixed
    heap,            \* live SharePointSiteInfo / SharePointSiteConnection objects
    spfiCollection,  \* the module-level cache: references into heap, in push order
    clients,         \* SPFI instances built by spfi(baseUrl).using(...)
    credentials,     \* DefaultAzureCredential instances built so far
    tokens,          \* number of access tokens issued by getToken
    getTokenCalls,   \* number of getToken requests made
    started,         \* number of handler invocations started
    invocations,     \* handler invocations in flight (a bag: they are told apart by nothing else)
    lastResponse,    \* the HttpResponseInit the last step returned, if it returned one
    lastCall,        \* the getSPFI call the last step made, if it made one
    returned,        \* history: <<tenantPrefix, siteRelativePath, SPFI>> of every getSPFI return
    initCalls,       \* history: number of initSPFI calls
    initThrows,      \* history: number of initSPFI calls that threw
    credLog,         \* history: the result of every getAzureCredential call that returned
    pure             \* last call of a pure helper (SpecPure only)

cacheVars == <<heap, spfiCollection, clients>>

histVars == <<returned, initCalls, initThrows>>

vars == <<CommonConfig, callerKey, heap, spfiCollection, clients, credentials, tokens,
          getTokenCalls, started, invocations, lastResponse, lastCall, returned,
          initCalls, initThrows, credLog, pure>>

\* ---------------------------------------------------------------- bounds
MaxInvocations == 3

\* ---------------------------------------------------------------- values
Null == "<null>"
Undefined == "<undefined>"

\* JavaScript truthiness of a string | null | undefined
Truthy(x) == x \notin {Null, Undefined, ""}

\* a || b
Or(a, b) == IF Truthy(a) THEN a ELSE b

Min(S) == CHOOSE x \in S : \A y \in S : x <= y

SeqRange(s) == {s[i] : i \in DOMAIN s}

ConfigTenantPrefixes == {"fabrikam"}
ConfigSitePaths == {"/sites/HR"}
QueryTenantPrefixes == {Null, "contoso"}

\* tenantPrefix and siteRelativePath of a request's query string: absent, empty
\* or given. Three sites are named: two differ in the tenant alone, two in the
\* path alone, two in both.
QuerySites == {<<Null, Null>>, <<"contoso", "">>, <<"", "/sites/Eng">>}
QueryListIds == {Null, "list-1"}
KeyLevels == {"function", "admin"}

Configs ==
    [TenantPrefix : ConfigTenantPrefixes,
     SiteRelativePath : ConfigSitePaths,
     SharePointDomain : {"sharepoint.com"},
     UserAssignedManagedIdentityClientId : {Undefined},
     IsLocalEnvironment : BOOLEAN]

\* ------------------------------------------------- spAuthentication.ts
\* (mutant) the defaults are used for both fields unless both are supplied
getSharePointSiteInfoAllOrNothing(tenantPrefix, siteRelativePath) ==
    IF Truthy(tenantPrefix) /\ Truthy(siteRelativePath)
    THEN [tenantPrefix |-> tenantPrefix, siteRelativePath |-> siteRelativePath]
    ELSE [tenantPrefix |-> CommonConfig.TenantPrefix,
          siteRelativePath |-> CommonConfig.SiteRelativePath]

\* getSharePointSiteInfo: the field values of the object it returns
getSharePointSiteInfo(tenantPrefix, siteRelativePath) ==
    [tenantPrefix |-> IF Truthy(tenantPrefix) THEN tenantPrefix
                      ELSE CommonConfig.TenantPrefix,
     siteRelativePath |-> IF Truthy(siteRelativePath) THEN siteRelativePath
                          ELSE CommonConfig.SiteRelativePath]

\* the object literal allocated by getSharePointSiteInfo: spfi = 0 is "no such
\* property" (a SharePointSiteInfo that is not yet a SharePointSiteConnection)
NewSiteObject(tenantPrefix, siteRelativePath) ==
    [tenantPrefix |-> getSharePointSiteInfo(tenantPrefix, siteRelativePath).tenantPrefix,
     siteRelativePath |-> getSharePointSiteInfo(tenantPrefix, siteRelativePath).siteRelativePath,
     spfi |-> 0]

\* (mutant) the delegated scope is pushed whatever the environment
getScopesAlwaysDelegated(tenantPrefix) ==
    <<"https://" \o tenantPrefix \o ".sharepoint.com/.default", "Sites.Selected">>

getScopes(tenantPrefix) ==
    IF CommonConfig.IsLocalEnvironment
    THEN <<"https://" \o tenantPrefix \o ".sharepoint.com/.default", "Sites.Selected">>
    ELSE <<"https://" \o tenantPrefix \o ".sharepoint.com/.default">>

\* (mutant) the credential is built on the first call and reused afterwards
withCachedAzureCredential(creds) ==
    IF creds = <<>>
    THEN [credentials |-> <<[managedIdentityClientId |->
                             CommonConfig.UserAssignedManagedIdentityClientId]>>,
          ret |-> 1]
    ELSE [credentials |-> creds, ret |-> 1]

\* new DefaultAzureCredential({managedIdentityClientId}): the instances built so
\* far, extended by the new one, and the reference returned
withDefaultAzureCredential(creds) ==
    [credentials |-> Append(creds, [managedIdentityClientId |->
                                    CommonConfig.UserAssignedManagedIdentityClientId]),
     ret |-> Len(creds) + 1]

getAzureCredential(creds) == withDefaultAzureCredential(creds)

\* (mutant) find compares the tenant prefix alone
findTenantOnly(coll, h, spSite) ==
    LET hits == {i \in DOMAIN coll : h[coll[i]].tenantPrefix = h[spSite].tenantPrefix}
    IN IF hits = {} THEN 0 ELSE Min(hits)

\* (mutant) find compares the site path alone
findPathOnly(coll, h, spSite) ==
    LET hits == {i \in DOMAIN coll :
                    h[coll[i]].siteRelativePath = h[spSite].siteRelativePath}
    IN IF hits = {} THEN 0 ELSE Min(hits)

\* (mutant) find compares the objects, not their fields: item === spSite
findByReference(coll, h, spSite) ==
    LET hits == {i \in DOMAIN coll : coll[i] = spSite}
    IN IF hits = {} THEN 0 ELSE Min(hits)

\* spfiCollection.find(item => item.siteRelativePath === spSite.siteRelativePath
\*                          && item.tenantPrefix === spSite.tenantPrefix):
\* the index of the first match, 0 for undefined
find(coll, h, spSite) ==
    LET hits == {i \in DOMAIN coll :
                    /\ h[coll[i]].siteRelativePath = h[spSite].siteRelativePath
                    /\ h[coll[i]].tenantPrefix = h[spSite].tenantPrefix}
    IN IF hits = {} THEN 0 ELSE Min(hits)

\* (mutant) the cache keeps the latest connection only
pushReplacing(coll, ref) == <<ref>>

\* spfiCollection.push(connectionCache)
push(coll, ref) == Append(coll, ref)

\* Where the construction of a connection can throw: in the credential's
\* constructor, or in spfi(baseUrl).using(...)
InitFailures == {"none", "credential", "spfi"}

\* (mutant) the connection is built for the configured default site, whatever
\* site was asked for
initSPFIDefaultSite(h, cl, creds, spSite, fail) ==
    LET credential == getAzureCredential(creds)
        baseUrl == "https://" \o CommonConfig.TenantPrefix \o "." \o
                   CommonConfig.SharePointDomain \o CommonConfig.SiteRelativePath
        scopes == getScopes(CommonConfig.TenantPrefix)
        spConnection == [baseUrl |-> baseUrl, scopes |-> scopes,
                         credential |-> credential.ret, retries |-> 4]
    IN CASE fail = "credential" ->
              [threw |-> TRUE, heap |-> h, clients |-> cl, credentials |-> creds,
               credential |-> 0, ret |-> 0]
         [] fail = "spfi" ->
              [threw |-> TRUE, heap |-> h, clients |-> cl,
               credentials |-> credential.credentials,
               credential |-> credential.ret, ret |-> 0]
         [] OTHER ->
              [threw |-> FALSE,
               heap |-> [h EXCEPT ![spSite].spfi = Len(cl) + 1],
               clients |-> Append(cl, spConnection),
               credentials |-> credential.credentials,
               credential |-> credential.ret, ret |-> spSite]

\* initSPFI(spSite), run on heap h, clients cl and credentials creds.
\* On success the caller's object itself gets the spfi property and is returned.
initSPFI(h, cl, creds, spSite, fail) ==
    LET credential == getAzureCredential(creds)
        baseUrl == "https://" \o h[spSite].tenantPrefix \o "." \o
                   CommonConfig.SharePointDomain \o h[spSite].siteRelativePath
        scopes == getScopes(h[spSite].tenantPrefix)
        spConnection == [baseUrl |-> baseUrl, scopes |-> scopes,
                         credential |-> credential.ret, retries |-> 4]
    IN CASE fail = "credential" ->
              [threw |-> TRUE, heap |-> h, clients |-> cl, credentials |-> creds,
               credential |-> 0, ret |-> 0]
         [] fail = "spfi" ->
              [threw |-> TRUE, heap |-> h, clients |-> cl,
               credentials |-> credential.credentials,
               credential |-> credential.ret, ret |-> 0]
         [] OTHER ->
              [threw |-> FALSE,
               heap |-> [h EXCEPT ![spSite].spfi = Len(cl) + 1],
               clients |-> Append(cl, spConnection),
               credentials |-> credential.credentials,
               credential |-> credential.ret, ret |-> spSite]

\* (mutant) the entry is pushed before it is initialised, and stays when
\* initSPFI throws
getSPFIPushFirst(coll, h, cl, creds, spSite, fail) ==
    LET found == find(coll, h, spSite)
        init == initSPFI(h, cl, creds, spSite, fail)
    IN IF found # 0
       THEN [threw |-> FALSE, hit |-> TRUE, spfiCollection |-> coll, heap |-> h,
             clients |-> cl, credentials |-> creds, credential |-> 0,
             ret |-> h[coll[found]].spfi]
       ELSE [threw |-> init.threw, hit |-> FALSE,
             spfiCollection |-> push(coll, spSite),
             heap |-> init.heap, clients |-> init.clients,
             credentials |-> init.credentials, credential |-> init.credential,
             ret |-> init.heap[spSite].spfi]

\* getSPFI(spSite): the state it leaves and the SPFI it returns (ret; 0 if it threw)
getSPFI(coll, h, cl, creds, spSite, fail) ==
    LET found == find(coll, h, spSite)
        init == initSPFI(h, cl, creds, spSite, fail)
    IN IF found # 0
       THEN [threw |-> FALSE, hit |-> TRUE, spfiCollection |-> coll, heap |-> h,
             clients |-> cl, credentials |-> creds, credential |-> 0,
             ret |-> h[coll[found]].spfi]
       ELSE IF init.threw
       THEN [threw |-> TRUE, hit |-> FALSE, spfiCollection |-> coll,
             heap |-> init.heap, clients |-> init.clients,
             credentials |-> init.credentials, credential |-> init.credential,
             ret |-> 0]
       ELSE [threw |-> FALSE, hit |-> FALSE,
             spfiCollection |-> push(coll, init.ret),
             heap |-> init.heap, clients |-> init.clients,
             credentials |-> init.credentials, credential |-> init.credential,
             ret |-> init.heap[init.ret].spfi]

\* ---------------------------------------------------- functions-debug.ts
\* (mutant) the token endpoint is registered like the other two
RegistrationsAllFunction ==
    [getAccessToken |-> "function", getWeb |-> "function", getChanges |-> "function"]

\* app.http(name, {authLevel, handler}): the authorization level of each route
Registrations ==
    [getAccessToken |-> "admin", getWeb |-> "function", getChanges |-> "function"]

\* The Functions host runs a handler only for a request whose key is of the
\* route's level or above (the admin key opens every route)
Authorized(level, handler) ==
    Registrations[handler] = "admin" => level = "admin"

NoResponse == [handler |-> "none", level |-> "none", status |-> 0, kind |-> "none",
               token |-> 0, getTokenRequests |-> 0]

\* status codes logError (utils/loggingHandler.js) may put in errorDetails.httpStatus
ErrorStatuses == {401, 500}

\* getToken counts the getToken requests the invocation has made
Invocation(handler, pc) == [handler |-> handler, pc |-> pc, getToken |-> 0]

\* the invocations in flight with one more, one less, or one moved on to pc
Enter(bag, inv) == bag (+) SetToBag({inv})

Leave(bag, inv) == bag (-) SetToBag({inv})

Move(bag, inv, pc) == Enter(Leave(bag, inv), [inv EXCEPT !.pc = pc])

NoCall == [called |-> FALSE, arg |-> 0, tenantPrefix |-> "", siteRelativePath |-> "",
           threw |-> FALSE, hit |-> FALSE, ret |-> 0,
           argBefore |-> [tenantPrefix |-> "", siteRelativePath |-> "", spfi |-> 0],
           argAfter |-> [tenantPrefix |-> "", siteRelativePath |-> "", spfi |-> 0],
           cacheBefore |-> <<>>, cacheAfter |-> <<>>, entry |-> 0]

CallRecord(spSite, h0, coll0, r) ==
    [called |-> TRUE, arg |-> spSite,
     tenantPrefix |-> h0[spSite].tenantPrefix,
     siteRelativePath |-> h0[spSite].siteRelativePath,
     threw |-> r.threw, hit |-> r.hit, ret |-> r.ret,
     argBefore |-> h0[spSite], argAfter |-> r.heap[spSite],
     cacheBefore |-> [i \in DOMAIN coll0 |-> h0[coll0[i]]],
     cacheAfter |-> [i \in DOMAIN r.spfiCollection |-> r.heap[r.spfiCollection[i]]],
     entry |-> IF find(r.spfiCollection, r.heap, spSite) = 0 THEN 0
               ELSE r.spfiCollection[find(r.spfiCollection, r.heap, spSite)]]

\* The handler's sharePointSite object is the last one allocated; once the handler
\* is done with it, it stays live only if the cache refers to it
Collect(h, coll) ==
    IF Len(h) \in SeqRange(coll) THEN h ELSE SubSeq(h, 1, Len(h) - 1)

\* The part shared by getWeb (lines 27-32) and getChanges (lines 53-70): resolve
\* the site, get its connection and issue the request; a throw goes to the catch
\* block, which awaits logError
ConnectAndRequest(handler, qTenant, qPath, fail, awaiting) ==
    LET h0 == Append(heap, NewSiteObject(Or(qTenant, Undefined), Or(qPath, Undefined)))
        sharePointSite == Len(h0)
        r == getSPFI(spfiCollection, h0, clients, credentials, sharePointSite, fail)
    IN /\ fail = "none" \/ find(spfiCollection, h0, sharePointSite) = 0
       /\ heap' = Collect(r.heap, r.spfiCollection)
       /\ spfiCollection' = r.spfiCollection
       /\ clients' = r.clients
       /\ credentials' = r.credentials
       /\ lastCall' = CallRecord(sharePointSite, h0, spfiCollection, r)
       /\ returned' = IF r.threw THEN returned
                      ELSE returned \cup {<<h0[sharePointSite].tenantPrefix,
                                            h0[sharePointSite].siteRelativePath, r.ret>>}
       /\ initCalls' = IF r.hit THEN initCalls ELSE initCalls + 1
       /\ initThrows' = IF r.threw THEN initThrows + 1 ELSE initThrows
       /\ credLog' = IF r.credential = 0 THEN credLog
                     ELSE Append(credLog, r.credential)
       /\ invocations' = Enter(invocations,
             Invocation(handler, IF r.threw THEN "awaitLogError" ELSE awaiting))
       /\ started' = started + 1
       /\ lastResponse' = NoResponse
       /\ UNCHANGED <<CommonConfig, callerKey, tokens, getTokenCalls, pure>>

\* getAccessToken up to its await: getSpAccessToken builds the credential and
\* the scopes and calls getToken
StartGetAccessToken(qTenant, fail) ==
    LET tenantPrefix == Or(qTenant, CommonConfig.TenantPrefix)
        tokenCreds == getAzureCredential(credentials)
        scopes == getScopes(tenantPrefix)
    IN /\ started < MaxInvocations
       /\ Authorized(callerKey, "getAccessToken")
       /\ started' = started + 1
       /\ IF fail = "credential"
          THEN /\ invocations' = Enter(invocations,
                    Invocation("getAccessToken", "awaitLogError"))
               /\ UNCHANGED <<credentials, credLog, getTokenCalls>>
          ELSE /\ credentials' = tokenCreds.credentials
               /\ credLog' = Append(credLog, tokenCreds.ret)
               /\ getTokenCalls' = getTokenCalls + 1
               /\ invocations' = Enter(invocations,
                    [Invocation("getAccessToken", "awaitToken") EXCEPT !.getToken = 1])
       /\ lastCall' = NoCall
       /\ lastResponse' = NoResponse
       /\ UNCHANGED <<CommonConfig, callerKey, cacheVars, tokens, histVars, pure>>

\* (mutant) a rejected getToken is requested again
getSpAccessTokenRetry(inv) == [inv EXCEPT !.getToken = @ + 1]

\* getToken rejects: getSpAccessToken has no try around its await, so the
\* rejection goes to the handler's catch block, which awaits logError
getSpAccessTokenRejected(inv) == [inv EXCEPT !.pc = "awaitLogError"]

\* await tokenCreds.getToken(scopes) settles
TokenDone(inv, ok) ==
    /\ BagIn(inv, invocations)
    /\ inv.pc = "awaitToken"
    /\ IF ok
       THEN /\ tokens' = tokens + 1
            /\ invocations' = Leave(invocations, inv)
            /\ lastResponse' = [handler |-> inv.handler,
                                level |-> callerKey,
                                status |-> 200, kind |-> "token", token |-> tokens + 1,
                                getTokenRequests |-> inv.getToken]
       ELSE /\ invocations' = Enter(Leave(invocations, inv),
                                     getSpAccessTokenRejected(inv))
            /\ tokens' = tokens
            /\ lastResponse' = NoResponse
    /\ lastCall' = NoCall
    /\ UNCHANGED <<CommonConfig, callerKey, cacheVars, credentials, getTokenCalls, started,
                   histVars, credLog, pure>>

StartGetWeb(qTenant, qPath, fail) ==
    /\ started < MaxInvocations
    /\ Authorized(callerKey, "getWeb")
    /\ ConnectAndRequest("getWeb", qTenant, qPath, fail, "awaitWeb")

\* await safeWait(sp.web()) settles with [result, error]
WebDone(inv, ok) ==
    /\ BagIn(inv, invocations)
    /\ inv.pc = "awaitWeb"
    /\ IF ok
       THEN /\ invocations' = Leave(invocations, inv)
            /\ lastResponse' = [handler |-> inv.handler,
                                level |-> callerKey,
                                status |-> 200, kind |-> "web", token |-> 0,
                                getTokenRequests |-> inv.getToken]
       ELSE /\ invocations' = Move(invocations, inv, "awaitLogError")
            /\ lastResponse' = NoResponse
    /\ lastCall' = NoCall
    /\ UNCHANGED <<CommonConfig, callerKey, cacheVars, credentials, tokens, getTokenCalls,
                   started, histVars, credLog, pure>>

\* (mutant) the listId check comes after the site is resolved and its
\* connection fetched
StartGetChangesLateCheck(qTenant, qPath, listId, fail) ==
    LET h0 == Append(heap, NewSiteObject(Or(qTenant, Undefined), Or(qPath, Undefined)))
        r == getSPFI(spfiCollection, h0, clients, credentials, Len(h0), fail)
    IN /\ started < MaxInvocations
       /\ Authorized(callerKey, "getChanges")
       /\ IF ~Truthy(listId) /\ ~r.threw
          THEN /\ started' = started + 1
               /\ heap' = Collect(r.heap, r.spfiCollection)
               /\ spfiCollection' = r.spfiCollection
               /\ clients' = r.clients
               /\ credentials' = r.credentials
               /\ credLog' = IF r.credential = 0 THEN credLog
                             ELSE Append(credLog, r.credential)
               /\ lastResponse' = [handler |-> "getChanges", level |-> callerKey,
                                   status |-> 400, kind |-> "text", token |-> 0,
                                   getTokenRequests |-> 0]
               /\ lastCall' = NoCall
               /\ UNCHANGED <<CommonConfig, callerKey, tokens, getTokenCalls,
                              invocations, histVars, pure>>
          ELSE ConnectAndRequest("getChanges", qTenant, qPath, fail, "awaitChanges")

StartGetChanges(qTenant, qPath, listId, fail) ==
    /\ started < MaxInvocations
    /\ Authorized(callerKey, "getChanges")
    /\ IF ~Truthy(listId)
       THEN /\ started' = started + 1
            /\ lastResponse' = [handler |-> "getChanges", level |-> callerKey,
                                status |-> 400, kind |-> "text", token |-> 0,
                                getTokenRequests |-> 0]
            /\ lastCall' = NoCall
            /\ UNCHANGED <<CommonConfig, callerKey, cacheVars, credentials, tokens,
                           getTokenCalls, invocations, histVars, credLog, pure>>
       ELSE ConnectAndRequest("getChanges", qTenant, qPath, fail, "awaitChanges")

\* await sp.web.lists.getById(listId).getChanges(changeQuery) settles
ChangesDone(inv, ok) ==
    /\ BagIn(inv, invocations)
    /\ inv.pc = "awaitChanges"
    /\ IF ok
       THEN /\ invocations' = Leave(invocations, inv)
            /\ lastResponse' = [handler |-> inv.handler,
                                level |-> callerKey,
                                status |-> 200, kind |-> "message", token |-> 0,
                                getTokenRequests |-> inv.getToken]
       ELSE /\ invocations' = Move(invocations, inv, "awaitLogError")
            /\ lastResponse' = NoResponse
    /\ lastCall' = NoCall
    /\ UNCHANGED <<CommonConfig, callerKey, cacheVars, credentials, tokens, getTokenCalls,
                   started, histVars, credLog, pure>>

\* await logError(context, error, ...) settles; the handler answers with its status
LogErrorDone(inv, httpStatus) ==
    /\ BagIn(inv, invocations)
    /\ inv.pc = "awaitLogError"
    /\ invocations' = Leave(invocations, inv)
    /\ lastResponse' = [handler |-> inv.handler,
                        level |-> callerKey,
                        status |-> httpStatus, kind |-> "errorDetails", token |-> 0,
                                getTokenRequests |-> inv.getToken]
    /\ lastCall' = NoCall
    /\ UNCHANGED <<CommonConfig, callerKey, cacheVars, credentials, tokens, getTokenCalls,
                   started, histVars, credLog, pure>>

NoPure == [fn |-> "none", tenantPrefix |-> "", siteRelativePath |-> "", ret |-> <<>>]

Start ==
    /\ heap = <<>>
    /\ spfiCollection = <<>>
    /\ clients = <<>>
    /\ credentials = <<>>
    /\ tokens = 0
    /\ getTokenCalls = 0
    /\ started = 0
    /\ invocations = EmptyBag
    /\ lastResponse = NoResponse
    /\ lastCall = NoCall
    /\ returned = {}
    /\ initCalls = 0
    /\ initThrows = 0
    /\ credLog = <<>>
    /\ pure = NoPure

Init ==
    /\ CommonConfig \in Configs
    /\ callerKey \in KeyLevels
    /\ Start

Next ==
    \/ \E qTenant \in QueryTenantPrefixes, fail \in {"none", "credential"} :
            StartGetAccessToken(qTenant, fail)
    \/ \E q \in QuerySites, fail \in InitFailures :
            StartGetWeb(q[1], q[2], fail)
    \/ \E q \in QuerySites, listId \in QueryListIds, fail \in InitFailures :
            StartGetChanges(q[1], q[2], listId, fail)
    \/ \E inv \in BagToSet(invocations), ok \in BOOLEAN : TokenDone(inv, ok)
    \/ \E inv \in BagToSet(invocations), ok \in BOOLEAN : WebDone(inv, ok)
    \/ \E inv \in BagToSet(invocations), ok \in BOOLEAN : ChangesDone(inv, ok)
    \/ \E inv \in BagToSet(invocations), httpStatus \in ErrorStatuses :
            LogErrorDone(inv, httpStatus)

Spec == Init /\ [][Next]_vars

\* ------------------------------------------- the pure helpers, on their own
PureConfigs ==
    [TenantPrefix : {"fabrikam", "contoso"},
     SiteRelativePath : {"/sites/HR", "/sites/Eng"},
     SharePointDomain : {"sharepoint.com"},
     UserAssignedManagedIdentityClientId : {Undefined},
     IsLocalEnvironment : BOOLEAN]

PureTenantPrefixes == {Undefined, "", "contoso", "fabrikam"}
PureSitePaths == {Undefined, "", "/sites/Eng", "/sites/HR"}

CallGetSharePointSiteInfo(tenantPrefix, siteRelativePath) ==
    /\ pure' = [fn |-> "getSharePointSiteInfo", tenantPrefix |-> tenantPrefix,
                siteRelativePath |-> siteRelativePath,
                ret |-> getSharePointSiteInfo(tenantPrefix, siteRelativePath)]
    /\ UNCHANGED <<CommonConfig, callerKey, cacheVars, credentials, tokens,
                   getTokenCalls, started, invocations, lastResponse, lastCall,
                   histVars, credLog>>

CallGetScopes(tenantPrefix) ==
    /\ pure' = [fn |-> "getScopes", tenantPrefix |-> tenantPrefix,
                siteRelativePath |-> "", ret |-> getScopes(tenantPrefix)]
    /\ UNCHANGED <<CommonConfig, callerKey, cacheVars, credentials, tokens,
                   getTokenCalls, started, invocations, lastResponse, lastCall,
                   histVars, credLog>>

InitPure ==
    /\ CommonConfig \in PureConfigs
    /\ callerKey = "function"
    /\ Start

NextPure ==
    \/ \E tenantPrefix \in PureTenantPrefixes, siteRelativePath \in PureSitePaths :
            CallGetSharePointSiteInfo(tenantPrefix, siteRelativePath)
    \/ \E tenantPrefix \in PureTenantPrefixes \ {Undefined} :
            CallGetScopes(tenantPrefix)

SpecPure == InitPure /\ [][NextPure]_vars

\* ------------------------------------------------------------ properties
Entry(i) == heap[spfiCollection[i]]

Site(o) == <<o.tenantPrefix, o.siteRelativePath>>

InFlight == BagCardinality(invocations)

\* C1: once getSPFI has returned a client for a site, every later call for an
\* equal site returns that same client, and the entry that holds it is still in
\* the cache (never evicted, never replaced).
C1_SameClientForEqualSite ==
    /\ \A p \in returned : \A q \in returned :
          (p[1] = q[1] /\ p[2] = q[2]) => p[3] = q[3]
    /\ \A p \in returned : \E i \in DOMAIN spfiCollection :
          /\ Site(Entry(i)) = <<p[1], p[2]>>
          /\ Entry(i).spfi = p[3]

\* a hit on the first site cached, after another site was cached in between
C1_Witness ==
    /\ lastCall.called /\ lastCall.hit
    /\ Len(spfiCollection) >= 2
    /\ lastCall.entry = spfiCollection[1]
    /\ <<lastCall.tenantPrefix, lastCall.siteRelativePath, lastCall.ret>> \in returned

\* C2: two sites that differ in tenantPrefix or in siteRelativePath never get
\* the same client from getSPFI.
C2_DistinctClientsForDistinctSites ==
    \A p \in returned : \A q \in returned :
        (p[1] # q[1] \/ p[2] # q[2]) => p[3] # q[3]

\* three sites were served, two of them differing in the tenant alone, two in
\* the path alone, two in both
C2_Witness ==
    /\ Cardinality({<<p[1], p[2]>> : p \in returned}) = 3
    /\ Cardinality({p[3] : p \in returned}) = 3
    /\ lastCall.called /\ ~lastCall.hit /\ ~lastCall.threw

\* C3: the cache never holds two entries for the same (tenantPrefix,
\* siteRelativePath), whatever the interleaving of the handlers.
C3_OneEntryPerSite ==
    \A i \in DOMAIN spfiCollection : \A j \in DOMAIN spfiCollection :
        i # j => Site(Entry(i)) # Site(Entry(j))

\* two invocations in flight at once for the same new site: the first built the
\* entry, the second found it
C3_Witness ==
    /\ started = 2 /\ InFlight = 2
    /\ lastCall.called /\ lastCall.hit
    /\ Len(spfiCollection) = 1

\* C4: as long as no construction threw, the number of initSPFI calls is the
\* number of distinct sites requested.
C4_OneConstructionPerSite ==
    initThrows = 0 => initCalls = Cardinality({<<p[1], p[2]>> : p \in returned})

\* two calls for one site, one construction
C4_Witness ==
    /\ started = 2 /\ initThrows = 0 /\ initCalls = 1
    /\ lastCall.called /\ lastCall.hit

\* C5: a getSPFI call whose initSPFI throws leaves the cache as it was, with no
\* entry for the site; every entry of the cache comes from a construction that
\* succeeded, and a call constructs unless the cache held the site before it.
C5_FailedConstructionNotCached ==
    /\ (lastCall.called /\ lastCall.threw) =>
          /\ lastCall.cacheAfter = lastCall.cacheBefore
          /\ lastCall.entry = 0
          /\ lastCall.ret = 0
    /\ \A i \in DOMAIN spfiCollection :
          /\ Entry(i).spfi # 0
          /\ <<Entry(i).tenantPrefix, Entry(i).siteRelativePath, Entry(i).spfi>>
                \in returned
    /\ lastCall.called =>
          (lastCall.hit <=> \E i \in DOMAIN lastCall.cacheBefore :
                               Site(lastCall.cacheBefore[i]) =
                                   <<lastCall.tenantPrefix, lastCall.siteRelativePath>>)

\* a second failed construction, with a non-empty cache left as it was
C5_Witness ==
    /\ lastCall.called /\ lastCall.threw
    /\ initThrows >= 2
    /\ Len(lastCall.cacheBefore) >= 1

C7_Scopes ==
    pure.fn = "getScopes" =>
        /\ Len(pure.ret) >= 1
        /\ pure.ret[1] = "https://" \o pure.tenantPrefix \o ".sharepoint.com/.default"
        /\ CommonConfig.IsLocalEnvironment =>
              (Len(pure.ret) = 2 /\ pure.ret[2] = "Sites.Selected")
        /\ ~CommonConfig.IsLocalEnvironment => Len(pure.ret) = 1

C7_Witness ==
    /\ pure.fn = "getScopes"
    /\ CommonConfig.IsLocalEnvironment
    /\ pure.tenantPrefix = "contoso"
    /\ Len(pure.ret) = 2

\* C8 (as claimed): a supplied field (anything but undefined) is returned
\* unchanged, a field not supplied takes the configured default.
C8_SuppliedUnchanged ==
    pure.fn = "getSharePointSiteInfo" =>
        /\ pure.ret.tenantPrefix =
              IF pure.tenantPrefix # Undefined THEN pure.tenantPrefix
              ELSE CommonConfig.TenantPrefix
        /\ pure.ret.siteRelativePath =
              IF pure.siteRelativePath # Undefined THEN pure.siteRelativePath
              ELSE CommonConfig.SiteRelativePath

\* C8 (amended): a supplied non-empty field is returned unchanged; a field that
\* is not supplied, or is the empty string, takes the configured default; each
\* field is filled independently of the other.
C8_NonEmptyUnchanged ==
    pure.fn = "getSharePointSiteInfo" =>
        /\ DOMAIN pure.ret = {"tenantPrefix", "siteRelativePath"}
        /\ pure.ret.tenantPrefix =
              IF pure.tenantPrefix \in {Undefined, ""} THEN CommonConfig.TenantPrefix
              ELSE pure.tenantPrefix
        /\ pure.ret.siteRelativePath =
              IF pure.siteRelativePath \in {Undefined, ""}
              THEN CommonConfig.SiteRelativePath
              ELSE pure.siteRelativePath

\* one field supplied, the other left to the default
C8_Witness ==
    /\ pure.fn = "getSharePointSiteInfo"
    /\ pure.tenantPrefix = "contoso"
    /\ pure.siteRelativePath = Undefined
    /\ CommonConfig.TenantPrefix = "fabrikam"
    /\ pure.ret = [tenantPrefix |-> "contoso",
                   siteRelativePath |-> CommonConfig.SiteRelativePath]

\* C9 (as claimed): getSPFI leaves the object passed to it as it was, and the
\* cache entry for the site is another object than the caller's.
C9_SiteInfoUnchanged ==
    lastCall.called =>
        /\ lastCall.argAfter = lastCall.argBefore
        /\ lastCall.entry # lastCall.arg

\* C10: a response that carries a token comes from getAccessToken, which is
\* registered at level admin, and goes to a caller holding the admin key; no
\* response of getWeb or getChanges, and none to a function-key caller, carries one.
C10_TokenOnlyToAdmin ==
    /\ lastResponse.token # 0 =>
          /\ lastResponse.handler = "getAccessToken"
          /\ Registrations[lastResponse.handler] = "admin"
          /\ lastResponse.level = "admin"
    /\ lastResponse.handler \in {"getWeb", "getChanges"} => lastResponse.token = 0
    /\ callerKey = "function" => lastResponse.token = 0

\* getWeb answers with error details in a process that has issued a token
C10_Witness ==
    /\ tokens >= 1
    /\ lastResponse.handler = "getWeb"
    /\ lastResponse.kind = "errorDetails"
    /\ lastResponse.token = 0

\* C11: an invocation makes at most one getToken request, and has made exactly
\* one while it waits for the token; when getToken rejects, the step that takes
\* the rejection and the step that answers it make no further getToken request
\* and leave the connection cache as it was; the answer carries the status
\* logError gave, never 200, and no token.
C11_TokenFailureState ==
    /\ \A inv \in BagToSet(invocations) :
          /\ inv.getToken <= 1
          /\ inv.pc = "awaitToken" => inv.getToken = 1
          /\ inv.handler # "getAccessToken" => inv.getToken = 0
    /\ (lastResponse.handler = "getAccessToken" /\ lastResponse.kind = "errorDetails") =>
          /\ lastResponse.status \in ErrorStatuses
          /\ lastResponse.status # 200
          /\ lastResponse.token = 0
          /\ lastResponse.getTokenRequests <= 1
    /\ (lastResponse.handler = "getAccessToken" /\ lastResponse.status = 200) =>
          (lastResponse.kind = "token" /\ lastResponse.token # 0)

C11_TokenFailureStep ==
    (\/ \E inv \in BagToSet(invocations) : TokenDone(inv, FALSE)
     \/ /\ lastResponse'.handler = "getAccessToken"
        /\ lastResponse'.kind = "errorDetails")
    => /\ UNCHANGED <<cacheVars, credentials, getTokenCalls, histVars, credLog>>
       /\ lastCall' = NoCall

C12_MissingListIdStep ==
    /\ (\E q \in QuerySites, fail \in InitFailures :
            StartGetChanges(q[1], q[2], Null, fail))
       => /\ lastResponse'.status = 400
          /\ lastResponse'.handler = "getChanges"
          /\ lastCall' = NoCall
          /\ UNCHANGED <<cacheVars, credentials, credLog, getTokenCalls, tokens,
                         invocations, histVars>>
    /\ (lastResponse'.status = 400 /\ lastResponse'.kind = "text")
       => /\ lastResponse'.handler = "getChanges"
          /\ lastCall' = NoCall
          /\ UNCHANGED <<cacheVars, credentials, credLog, getTokenCalls, tokens,
                         invocations, histVars>>

C12_MissingListIdAnsweredFirst == [][C12_MissingListIdStep]_vars

\* a 400 answer while the cache holds a connection and a request is in flight
C12_Witness ==
    /\ lastResponse.handler = "getChanges"
    /\ lastResponse.status = 400
    /\ Len(spfiCollection) >= 1
    /\ InFlight >= 1

\* C13: the client getSPFI returns for a site was built with the base URL
\* https://{tenantPrefix}.{SharePointDomain}{siteRelativePath} and the scopes
\* getScopes(tenantPrefix) of that very site, on a miss and on a hit alike.
C13_ClientBuiltForSite ==
    /\ \A p \in returned :
          /\ p[3] \in DOMAIN clients
          /\ clients[p[3]].baseUrl =
                "https://" \o p[1] \o "." \o CommonConfig.SharePointDomain \o p[2]
          /\ clients[p[3]].scopes = getScopes(p[1])
          /\ clients[p[3]].scopes[1] = "https://" \o p[1] \o ".sharepoint.com/.default"
    /\ (lastCall.called /\ ~lastCall.threw) =>
          /\ lastCall.ret \in DOMAIN clients
          /\ clients[lastCall.ret].baseUrl =
                "https://" \o lastCall.argBefore.tenantPrefix \o "." \o
                CommonConfig.SharePointDomain \o lastCall.argBefore.siteRelativePath
          /\ clients[lastCall.ret].scopes = getScopes(lastCall.argBefore.tenantPrefix)

\* a hit for the contoso site, after another site was cached, returns the
\* client built for contoso
C13_Witness ==
    /\ lastCall.called /\ lastCall.hit
    /\ lastCall.tenantPrefix = "contoso"
    /\ Len(spfiCollection) >= 2
    /\ clients[lastCall.ret].baseUrl = "https://contoso.sharepoint.com/sites/HR"

====
